---- MODULE Spec2Model ----
(***************************************************************************)
(* The ECS engine of blixt/asteroids: World (src/src/lib/world.ts, lines   *)
(* 1-302) and EntityBuilder (src/src/lib/entitybuilder.ts).                *)
(*                                                                         *)
(* A component handle (a Symbol returned by addComponent) is modelled by   *)
(* its registration number 0, 1, 2, ...; Foreign is a Symbol that was      *)
(* never registered in this world.  An entity object {id, mask} is         *)
(* immutable and created once per id, so a reference to it is modelled by  *)
(* the record itself.  step() is split at the calls of the systems' update *)
(* functions: these are callbacks that may call back into the world.       *)
(***************************************************************************)
EXTENDS Integers, Sequences, FiniteSets, TLC

\* ---------------------------------------------------------------- bounds
MaxComponents == 3
MaxSystems == 2
MaxEntities == 2
MaxPending == 1
MaxQueued == 2
MaxArg == 1
MaxStaged == 2
MaxRegistered == 33

\* ------------------------------------------------------- 32-bit integers
\* Bits 0..30 of a 32-bit signed integer (its value without the sign bit).
Low31(x) == IF x < 0 THEN (x + 2147483647) + 1 ELSE x

FromBits(neg, low) == IF neg THEN (low - 2147483647) - 1 ELSE low

RECURSIVE AndU(_, _)
AndU(a, b) ==
  IF a = 0 \/ b = 0 THEN 0
  ELSE (a % 2) * (b % 2) + 2 * AndU(a \div 2, b \div 2)

RECURSIVE OrU(_, _)
OrU(a, b) ==
  IF a = 0 THEN b
  ELSE IF b = 0 THEN a
  ELSE (IF a % 2 = 1 \/ b % 2 = 1 THEN 1 ELSE 0) + 2 * OrU(a \div 2, b \div 2)

\* a & b and a | b on 32-bit signed integers.
BitAnd(a, b) == FromBits(a < 0 /\ b < 0, AndU(Low31(a), Low31(b)))

BitOr(a, b) == FromBits(a < 0 \/ b < 0, OrU(Low31(a), Low31(b)))

\* The width of the mask: the bitwise operators work on 32-bit integers.
MaskWidth == 32

\* 1 << n: the shift count is taken modulo 32 and bit 31 is the sign bit.
Shl1(n) == IF n % 32 = 31 THEN FromBits(TRUE, 0) ELSE 2 ^ (n % 32)

\* ------------------------------------------------------------ JS numbers
\* A number that may be NaN, as parseInt returns it.
Num(n) == [nan |-> FALSE, n |-> n]

NaN == [nan |-> TRUE, n |-> 0]

\* ToInt32, applied to the operands of & : NaN becomes 0.
ToInt32(v) == IF v.nan THEN 0 ELSE v.n

\* a !== b on numbers: NaN differs from everything, itself included.
StrictNotEq(a, b) == a.nan \/ b.nan \/ a.n # b.n

\* The truthiness of a number in a condition.
Truthy(v) == ~v.nan /\ v.n # 0

\* ------------------------------------------------------------ index keys
\* The text of a number inside `${require}-${exclude}`, as split("-") cuts
\* it: a negative number leaves an empty part and then its digits.
EmptyPart == [empty |-> TRUE, digitsOf |-> 0]

DigitsPart(n) == [empty |-> FALSE, digitsOf |-> n]

NumberParts(n) == IF n < 0 THEN <<EmptyPart, DigitsPart(n)>> ELSE <<DigitsPart(n)>>

\* indexKey.split("-")
SplitKey(require, exclude) == NumberParts(require) \o NumberParts(exclude)

\* parseInt(part, radix) for a part made of decimal digits: radix 0 means 10,
\* a radix of 1 or above 36 gives NaN, and so does the empty string.
ParseInt(part, radix) ==
  IF part.empty THEN NaN
  ELSE IF radix = 0 \/ radix = 10
       THEN Num(IF part.digitsOf < 0 THEN 0 - part.digitsOf ELSE part.digitsOf)
       ELSE NaN

\* const [require, exclude] = indexKey.split("-").map(parseInt): map passes
\* the element's position as parseInt's radix.
ParseKey(require, exclude) ==
  LET parts == SplitKey(require, exclude)
  IN <<ParseInt(parts[1], 0), ParseInt(parts[2], 1)>>

\* -------------------------------------------------------------- the state
VARIABLES
  components,        \* World.components, in registration order
  storage,           \* the storage of each component: entity id -> data
  entities,          \* World.entities
  systems,           \* World.systems, in registration order
  entitiesIndex,     \* World.entitiesIndex, in insertion order
  entitiesToDestroy, \* World.entitiesToDestroy, in insertion order
  builder,           \* the EntityBuilder in the caller's hands
  pc,                \* where step() is: "idle", "stepping", "system"
  sysIdx,            \* the number of systems step() has called in this tick
  call,              \* the arguments of the running system's update function
  thrown,            \* the error the last call of the interface threw, or "none"
  loop,              \* the for...of loop of the running system over its entities
  effects,           \* the closures of the runs of Viewport's effect
  active,            \* the run of the effect whose cleanup React holds, 0 if none
  globals            \* World.globals: context, deltaTime

vars == <<components, storage, entities, systems, entitiesIndex,
          entitiesToDestroy, builder, pc, sysIdx, call, thrown,
          loop, effects, active, globals>>

\* The state of the Viewport component.
viewport == <<effects, active, globals>>

\* What the operations of World and EntityBuilder do not touch.
outside == <<loop, effects, active, globals>>

world == <<components, storage, entities, systems, entitiesIndex,
           entitiesToDestroy>>

\* A handle that no addComponent of this world returned.
Foreign == 0 - 1

\* this.components.get(componentId)
Registered(h) == h >= 0 /\ h < Len(components)

Component(h) == components[h + 1]

\* A slot of World.entities: null after a purge, empty where the array has
\* a hole (an index that was never assigned).
NullSlot == [id |-> 0 - 1, mask |-> 0]

EmptySlot == [id |-> 0 - 2, mask |-> 0]

IsEntity(slot) == slot.id >= 0

\* this.entities[id], undefined (EmptySlot) beyond the end of the array
EntityAt(id) == IF id < Len(entities) THEN entities[id + 1] ELSE EmptySlot

NoStore == [i \in {} |-> 0]

StoreSet(f, id, v) == [i \in DOMAIN f \cup {id} |-> IF i = id THEN v ELSE f[i]]

StoreDelete(f, id) == [i \in DOMAIN f \ {id} |-> f[i]]

\* The data a component's factory builds from the arguments of with().
Factory(h, props) == [of |-> h, data |-> props]

NoCall == [entities |-> 0, storages |-> <<>>]

NoBuilder == [state |-> "none", components |-> <<>>]

\* index: the elements the loop has visited; first: the length the list had
\* when the system was called.
NoLoop == [index |-> 0, first |-> 0]

Init ==
  /\ components = <<>>
  /\ storage = <<>>
  /\ entities = <<>>
  /\ systems = <<>>
  /\ entitiesIndex = <<>>
  /\ entitiesToDestroy = <<>>
  /\ builder = NoBuilder
  /\ pc = "idle"
  /\ sysIdx = 0
  /\ call = NoCall
  /\ thrown = "none"
  /\ loop = NoLoop
  /\ effects = <<>>
  /\ active = 0
  /\ globals = [context |-> FALSE, deltaTime |-> 0]

\* The program registers its components and then its systems when its module
\* loads, before it builds the first entity (game.ts 21-300, index.tsx 10-16).
NothingBuilt ==
  /\ entities = <<>>
  /\ entitiesIndex = <<>>
  /\ entitiesToDestroy = <<>>
  /\ builder = NoBuilder
  /\ \A k \in 1..Len(storage) : storage[k] = NoStore

\* Whether the component registered after k others is given a factory: the
\* first two hold data, the later ones are tags or hold data.
FactoryChoices(k) == IF k < 2 THEN {TRUE} ELSE BOOLEAN

\* The world has fewer than max components.
Registrable(max) == Len(components) < max

\* ------------------------------------------------------------ addComponent
addComponent(factory) ==
  /\ pc = "idle"
  /\ NothingBuilt
  /\ systems = <<>>
  /\ components' = Append(components, [bit |-> Shl1(Len(components)), factory |-> factory])
  /\ storage' = Append(storage, NoStore)
  /\ thrown' = "none"
  /\ UNCHANGED <<entities, systems, entitiesIndex, entitiesToDestroy, builder, pc, sysIdx, call>>

\* --------------------------------------------------- requirement lists
\* A requirement of a system or a query: a component id, Maybe(id) or Not(id).
Plain(h) == [mod |-> "none", id |-> h]

Maybe(h) == [mod |-> "maybe", id |-> h]

Not(h) == [mod |-> "not", id |-> h]

\* The requirement lists the callers pass: over the first three components
\* of the world and a foreign handle.
Requirements ==
  { <<Plain(0)>>,
    <<Plain(0), Not(2)>>,
    <<Plain(0), Maybe(1), Not(2)>>,
    <<Plain(0), Plain(Foreign)>> }

\* The requirement lists of the systems the program registers, by the number
\* of systems registered before.
SystemChoices(k) ==
  IF k = 0
  THEN {<<Plain(0)>>, <<Plain(0), Plain(Foreign)>>}
  ELSE {<<Plain(0), Maybe(1), Not(2)>>, <<Plain(0), Plain(Foreign)>>}

\* The handles of a list exist: each was returned by addComponent or is Foreign.
Obtainable(ids) == \A i \in 1..Len(ids) : ids[i].id = Foreign \/ Registered(ids[i].id)

\* A resolveAnyComponentIds that passes over a handle it does not know.
RECURSIVE resolveSkipsUnknown(_, _, _, _, _)
resolveSkipsUnknown(ids, i, componentIds, require, exclude) ==
  IF i > Len(ids)
  THEN [thrown |-> FALSE, componentIds |-> componentIds, require |-> require, exclude |-> exclude]
  ELSE IF ~Registered(ids[i].id)
  THEN resolveSkipsUnknown(ids, i + 1, componentIds, require, exclude)
  ELSE resolveSkipsUnknown(ids, i + 1, Append(componentIds, ids[i].id),
         IF ids[i].mod = "none" THEN BitOr(require, Component(ids[i].id).bit) ELSE require,
         IF ids[i].mod = "not" THEN BitOr(exclude, Component(ids[i].id).bit) ELSE exclude)

\* A resolveAnyComponentIds that counts a Maybe component as a required one.
RECURSIVE resolveMaybeRequires(_, _, _, _, _)
resolveMaybeRequires(ids, i, componentIds, require, exclude) ==
  IF i > Len(ids)
  THEN [thrown |-> FALSE, componentIds |-> componentIds, require |-> require, exclude |-> exclude]
  ELSE IF ~Registered(ids[i].id)
  THEN [thrown |-> TRUE, componentIds |-> componentIds, require |-> require, exclude |-> exclude]
  ELSE resolveMaybeRequires(ids, i + 1, Append(componentIds, ids[i].id),
         IF ids[i].mod # "not" THEN BitOr(require, Component(ids[i].id).bit) ELSE require,
         IF ids[i].mod = "not" THEN BitOr(exclude, Component(ids[i].id).bit) ELSE exclude)

RECURSIVE resolveAnyComponentIds(_, _, _, _, _)
resolveAnyComponentIds(ids, i, componentIds, require, exclude) ==
  IF i > Len(ids)
  THEN [thrown |-> FALSE, componentIds |-> componentIds, require |-> require, exclude |-> exclude]
  ELSE IF ~Registered(ids[i].id)
  THEN [thrown |-> TRUE, componentIds |-> componentIds, require |-> require, exclude |-> exclude]
  ELSE resolveAnyComponentIds(ids, i + 1, Append(componentIds, ids[i].id),
         IF ids[i].mod = "none" THEN BitOr(require, Component(ids[i].id).bit) ELSE require,
         IF ids[i].mod = "not" THEN BitOr(exclude, Component(ids[i].id).bit) ELSE exclude)

Resolve(ids) == resolveAnyComponentIds(ids, 1, <<>>, 0, 0)

\* --------------------------------------------------------------- addSystem
addSystem(ids) ==
  /\ pc = "idle"
  /\ NothingBuilt
  /\ Len(systems) < MaxSystems
  /\ Obtainable(ids)
  /\ LET r == Resolve(ids)
     IN IF r.thrown
        THEN /\ thrown' = "invalid component"
             /\ UNCHANGED systems
        ELSE /\ systems' = Append(systems, [components |-> r.componentIds,
                                            require |-> r.require, exclude |-> r.exclude])
             /\ thrown' = "none"
  /\ UNCHANGED <<components, storage, entities, entitiesIndex, entitiesToDestroy,
                 builder, pc, sysIdx, call>>

\* ---------------------------------------------------------- filterEntities
\* The position in entitiesIndex of the entry stored under the key, 0 if none.
IndexPos(index, require, exclude) ==
  LET hits == {i \in 1..Len(index) : index[i].require = require /\ index[i].exclude = exclude}
  IN IF hits = {} THEN 0 ELSE CHOOSE i \in hits : TRUE

\* this.entities.filter(e => e && (e.mask & require) === require && !(e.mask & exclude))
Matches(e, require, exclude) ==
  IsEntity(e) /\ BitAnd(e.mask, require) = require /\ BitAnd(e.mask, exclude) = 0

Scan(require, exclude) == SelectSeq(entities, LAMBDA e : Matches(e, require, exclude))

\* A filterEntities whose scan leaves out the entities queued for destruction.
filterEntitiesSkipsQueued(require, exclude) ==
  IF IndexPos(entitiesIndex, require, exclude) # 0
  THEN entitiesIndex
  ELSE Append(entitiesIndex,
         [require |-> require, exclude |-> exclude,
          list |-> SelectSeq(Scan(require, exclude),
                     LAMBDA e : \A i \in 1..Len(entitiesToDestroy) : entitiesToDestroy[i] # e.id)])

\* A filterEntities that scans on every request and stores the fresh list in
\* place of the one it had.
filterEntitiesRebuilds(require, exclude) ==
  Append(SelectSeq(entitiesIndex,
                   LAMBDA entry : ~(entry.require = require /\ entry.exclude = exclude)),
         [require |-> require, exclude |-> exclude, list |-> Scan(require, exclude)])

\* entitiesIndex after filterEntities(require, exclude); the list returned is
\* the one stored under the key.
filterEntities(require, exclude) ==
  IF IndexPos(entitiesIndex, require, exclude) # 0
  THEN entitiesIndex
  ELSE Append(entitiesIndex, [require |-> require, exclude |-> exclude,
                              list |-> Scan(require, exclude)])

\* ------------------------------------------------------------ hasComponent
hasComponent(e, componentId) ==
  IF ~Registered(componentId)
  THEN FALSE
  ELSE BitAnd(e.mask, Component(componentId).bit) > 0

\* ------------------------------------------------------------------- query
query(ids) ==
  /\ pc \in {"idle", "system"}
  /\ Obtainable(ids)
  /\ LET r == Resolve(ids)
     IN IF r.thrown
        THEN /\ thrown' = "invalid component"
             /\ UNCHANGED entitiesIndex
        ELSE /\ entitiesIndex' = filterEntities(r.require, r.exclude)
             /\ thrown' = "none"
  /\ UNCHANGED <<components, storage, entities, systems, entitiesToDestroy,
                 builder, pc, sysIdx, call>>

\* ------------------------------------------------------------ createEntity
\* A createEntity loop whose mask keeps the bit of the last component only.
RECURSIVE StageEntriesLastBit(_, _, _, _, _)
StageEntriesLastBit(entries, i, id, mask, st) ==
  IF i > Len(entries)
  THEN [thrown |-> FALSE, mask |-> mask, storage |-> st]
  ELSE IF ~Registered(entries[i].id)
  THEN [thrown |-> TRUE, mask |-> mask, storage |-> st]
  ELSE LET h == entries[i].id
       IN StageEntriesLastBit(entries, i + 1, id, Component(h).bit,
            IF Component(h).factory
            THEN [st EXCEPT ![h + 1] = StoreSet(@, id, Factory(h, entries[i].props))]
            ELSE st)

\* The loop over the staged entries, from entry i on: it throws at the first
\* handle that is not registered, after the storage writes of the entries
\* before it.
RECURSIVE StageEntries(_, _, _, _, _)
StageEntries(entries, i, id, mask, st) ==
  IF i > Len(entries)
  THEN [thrown |-> FALSE, mask |-> mask, storage |-> st]
  ELSE IF ~Registered(entries[i].id)
  THEN [thrown |-> TRUE, mask |-> mask, storage |-> st]
  ELSE LET h == entries[i].id
       IN StageEntries(entries, i + 1, id, BitOr(mask, Component(h).bit),
            IF Component(h).factory
            THEN [st EXCEPT ![h + 1] = StoreSet(@, id, Factory(h, entries[i].props))]
            ELSE st)

\* if ((mask & require) !== require || mask & exclude) continue;
\* with require and exclude as parsed back from the index key.
SkipsIndex(mask, key) ==
  LET parsed == ParseKey(key.require, key.exclude)
  IN \/ StrictNotEq(Num(BitAnd(mask, ToInt32(parsed[1]))), parsed[1])
     \/ Truthy(Num(BitAnd(mask, ToInt32(parsed[2]))))

\* "Update existing indexes."
IndexAdd(index, entity) ==
  [i \in 1..Len(index) |->
     IF SkipsIndex(entity.mask, index[i])
     THEN index[i]
     ELSE [index[i] EXCEPT !.list = Append(@, entity)]]

\* A createEntity that gives the new entity the first freed slot, if any.
createEntityReusesSlot(entries) ==
  LET free == {i \in 1..Len(entities) : entities[i] = NullSlot}
      id == IF free = {} THEN Len(entities)
            ELSE (CHOOSE i \in free : \A k \in free : i <= k) - 1
      staged == StageEntries(entries, 1, id, 0, storage)
      entity == [id |-> id, mask |-> staged.mask]
  IN IF staged.thrown
     THEN [thrown |-> TRUE, id |-> id, storage |-> staged.storage,
           entities |-> entities, index |-> entitiesIndex]
     ELSE [thrown |-> FALSE, id |-> id, storage |-> staged.storage,
           entities |-> IF free = {} THEN Append(entities, entity)
                        ELSE [entities EXCEPT ![id + 1] = entity],
           index |-> IndexAdd(entitiesIndex, entity)]

createEntity(entries) ==
  LET id == Len(entities)
      staged == StageEntries(entries, 1, id, 0, storage)
      entity == [id |-> id, mask |-> staged.mask]
  IN IF staged.thrown
     THEN [thrown |-> TRUE, id |-> id, storage |-> staged.storage,
           entities |-> entities, index |-> entitiesIndex]
     ELSE [thrown |-> FALSE, id |-> id, storage |-> staged.storage,
           entities |-> Append(entities, entity),
           index |-> IndexAdd(entitiesIndex, entity)]

\* ----------------------------------------------------------- EntityBuilder
\* world.entity(): a fresh builder replaces the one in the caller's hands.
entity ==
  /\ pc \in {"idle", "system"}
  /\ builder' = [state |-> "open", components |-> <<>>]
  /\ thrown' = "none"
  /\ UNCHANGED <<world, pc, sysIdx, call>>

\* A set() that keeps the value a key already has.
MapSetKeepsFirst(map, h, props) ==
  IF \E i \in 1..Len(map) : map[i].id = h
  THEN map
  ELSE Append(map, [id |-> h, props |-> props])

\* this.components.set(component, properties): a Map keeps the position of a
\* key that is set again.
MapSet(map, h, props) ==
  IF \E i \in 1..Len(map) : map[i].id = h
  THEN [i \in 1..Len(map) |-> IF map[i].id = h THEN [id |-> h, props |-> props] ELSE map[i]]
  ELSE Append(map, [id |-> h, props |-> props])

\* The arguments a caller gives for a component: one number for a component
\* with a factory, none (0) for a tag or a foreign handle.
PropsFor(h) == IF Registered(h) /\ Component(h).factory THEN 1..MaxArg ELSE {0}

Handles == (0..(Len(components) - 1)) \cup {Foreign}

StagedWith(b, h, props) ==
  IF b.state # "open"
  THEN [thrown |-> TRUE, builder |-> b]
  ELSE [thrown |-> FALSE, builder |-> [b EXCEPT !.components = MapSet(@, h, props)]]

with(h, props) ==
  /\ pc \in {"idle", "system"}
  /\ builder.state # "none"
  /\ builder.state = "open" =>
       (\E i \in 1..Len(builder.components) : builder.components[i].id = h)
       \/ Len(builder.components) < MaxStaged
  /\ LET r == StagedWith(builder, h, props)
     IN /\ builder' = r.builder
        /\ thrown' = IF r.thrown THEN "invalid builder use"
                              ELSE "none"
  /\ UNCHANGED <<world, pc, sysIdx, call>>

\* tagged(...components): with(component) for each, in order.
RECURSIVE StagedTagged(_, _, _)
StagedTagged(b, hs, i) ==
  IF i > Len(hs)
  THEN [thrown |-> FALSE, builder |-> b]
  ELSE LET r == StagedWith(b, hs[i], 0)
       IN IF r.thrown THEN r ELSE StagedTagged(r.builder, hs, i + 1)

tagged(hs) ==
  /\ pc \in {"idle", "system"}
  /\ builder.state # "none"
  /\ builder.state = "open" =>
       Len(builder.components) + Len(hs) <= MaxStaged
  /\ LET r == StagedTagged(builder, hs, 1)
     IN /\ builder' = r.builder
        /\ thrown' = IF r.thrown THEN "invalid builder use"
                              ELSE "none"
  /\ UNCHANGED <<world, pc, sysIdx, call>>

\* A create() that leaves the builder open.
createKeepsBuilder ==
  /\ pc \in {"idle", "system"}
  /\ builder.state # "none"
  /\ Len(entities) < MaxEntities
  /\ LET r == createEntity(builder.components)
     IN /\ storage' = r.storage
        /\ entities' = r.entities
        /\ entitiesIndex' = r.index
        /\ thrown' = IF r.thrown THEN "invalid component" ELSE "none"
  /\ UNCHANGED <<components, systems, entitiesToDestroy, builder, pc, sysIdx, call>>

create ==
  /\ pc \in {"idle", "system"}
  /\ builder.state # "none"
  /\ Len(entities) < MaxEntities
  /\ IF builder.state # "open"
     THEN /\ thrown' = "invalid builder use"
          /\ UNCHANGED <<storage, entities, entitiesIndex, builder>>
     ELSE LET r == createEntity(builder.components)
          IN /\ storage' = r.storage
             /\ entities' = r.entities
             /\ entitiesIndex' = r.index
             /\ IF r.thrown
                THEN /\ thrown' = "invalid component"
                     /\ UNCHANGED builder
                ELSE /\ thrown' = "none"
                     /\ builder' = [state |-> "used", components |-> <<>>]
  /\ UNCHANGED <<components, systems, entitiesToDestroy, pc, sysIdx, call>>

\* A maker of entities, as createAsteroid, createPlayer and createProjectile
\* are: world.entity().with(...). ... .create() on a builder that is not kept.
RECURSIVE StagedChain(_, _, _)
StagedChain(b, entries, i) ==
  IF i > Len(entries)
  THEN b
  ELSE StagedChain(StagedWith(b, entries[i].id, entries[i].props).builder, entries, i + 1)

\* The chains of with() calls a maker makes: each handle with the arguments
\* of its kind.
Chains ==
  LET Entries == {[id |-> h, props |-> props] : h \in Handles, props \in 0..MaxArg}
      Fitting == {e \in Entries : e.props \in PropsFor(e.id)}
  IN UNION {[1..n -> Fitting] : n \in 0..MaxStaged}

spawn(entries) ==
  /\ pc \in {"idle", "system"}
  /\ Len(entities) < MaxEntities
  /\ LET b == StagedChain([state |-> "open", components |-> <<>>], entries, 1)
         r == createEntity(b.components)
     IN /\ storage' = r.storage
        /\ entities' = r.entities
        /\ entitiesIndex' = r.index
        /\ thrown' = IF r.thrown THEN "invalid component" ELSE "none"
  /\ UNCHANGED <<components, systems, entitiesToDestroy, builder, pc, sysIdx, call>>

\* ----------------------------------------------------------- destroyEntity
\* Set.add: an id already in the set keeps its place.
SetAdd(set, id) ==
  IF \E i \in 1..Len(set) : set[i] = id THEN set ELSE Append(set, id)

\* The queue holds at most max ids once id is added.
Queueable(id, max) == Len(SetAdd(entitiesToDestroy, id)) <= max

\* A destroyEntity that frees the entity's slot at once.
destroyEntityAtOnce(id) ==
  /\ pc \in {"idle", "system"}
  /\ entitiesToDestroy' = SetAdd(entitiesToDestroy, id)
  /\ entities' = IF id < Len(entities) THEN [entities EXCEPT ![id + 1] = NullSlot] ELSE entities
  /\ thrown' = "none"
  /\ UNCHANGED <<components, storage, systems, entitiesIndex, builder, pc, sysIdx, call>>

destroyEntity(id) ==
  /\ pc \in {"idle", "system"}
  /\ entitiesToDestroy' = SetAdd(entitiesToDestroy, id)
  /\ thrown' = "none"
  /\ UNCHANGED <<components, storage, entities, systems, entitiesIndex,
                 builder, pc, sysIdx, call>>

\* ------------------------------------------------- purgeDestroyedEntities
\* "Remove component data for deleted entities", for the component at
\* position k and the queued ids from position i on: reading the mask of an
\* id whose slot holds no entity throws a TypeError.
RECURSIVE PurgeStorageIds(_, _, _)
PurgeStorageIds(st, k, i) ==
  IF i > Len(entitiesToDestroy)
  THEN [thrown |-> FALSE, storage |-> st]
  ELSE LET id == entitiesToDestroy[i]
           e == EntityAt(id)
       IN IF ~IsEntity(e)
          THEN [thrown |-> TRUE, storage |-> st]
          ELSE PurgeStorageIds(
                 IF BitAnd(e.mask, components[k].bit) = 0
                 THEN st
                 ELSE [st EXCEPT ![k] = StoreDelete(@, id)],
                 k, i + 1)

RECURSIVE PurgeStorage(_, _)
PurgeStorage(st, k) ==
  IF k > Len(components)
  THEN [thrown |-> FALSE, storage |-> st]
  ELSE IF ~components[k].factory
  THEN PurgeStorage(st, k + 1)
  ELSE LET r == PurgeStorageIds(st, k, 1)
       IN IF r.thrown THEN r ELSE PurgeStorage(r.storage, k + 1)

\* indexList.indexOf(entity): the position from 0, -1 when it is not there.
IndexOf(list, e) ==
  LET hits == {i \in 1..Len(list) : list[i] = e}
  IN IF hits = {} THEN 0 - 1 ELSE (CHOOSE i \in hits : \A j \in hits : i <= j) - 1

\* indexList.splice(i, 1): a negative start counts from the end of the list.
Splice1(list, i) ==
  LET start == IF i < 0 THEN (IF Len(list) + i < 0 THEN 0 ELSE Len(list) + i) ELSE i
  IN IF start >= Len(list)
     THEN list
     ELSE SubSeq(list, 1, start) \o SubSeq(list, start + 2, Len(list))

\* "Update indexes", for one index entry and the queued ids from position i on.
RECURSIVE PurgeIndexIds(_, _)
PurgeIndexIds(entry, i) ==
  IF i > Len(entitiesToDestroy)
  THEN [thrown |-> FALSE, entry |-> entry]
  ELSE LET e == EntityAt(entitiesToDestroy[i])
       IN IF ~IsEntity(e)
          THEN [thrown |-> TRUE, entry |-> entry]
          ELSE PurgeIndexIds(
                 IF SkipsIndex(e.mask, entry)
                 THEN entry
                 ELSE [entry EXCEPT !.list = Splice1(@, IndexOf(@, e))],
                 i + 1)

RECURSIVE PurgeIndex(_, _)
PurgeIndex(index, j) ==
  IF j > Len(index)
  THEN [thrown |-> FALSE, index |-> index]
  ELSE LET r == PurgeIndexIds(index[j], 1)
       IN IF r.thrown
          THEN [thrown |-> TRUE, index |-> [index EXCEPT ![j] = r.entry]]
          ELSE PurgeIndex([index EXCEPT ![j] = r.entry], j + 1)

\* this.entities[id] = null: an id beyond the end lengthens the array and
\* leaves the slots in between empty.
SetNull(ents, id) ==
  IF id < Len(ents)
  THEN [ents EXCEPT ![id + 1] = NullSlot]
  ELSE ents \o [i \in 1..(id - Len(ents)) |-> EmptySlot] \o <<NullSlot>>

\* "Make entity ids unused."
RECURSIVE PurgeSlots(_, _)
PurgeSlots(ents, i) ==
  IF i > Len(entitiesToDestroy)
  THEN ents
  ELSE PurgeSlots(SetNull(ents, entitiesToDestroy[i]), i + 1)

purgeDestroyedEntities ==
  LET same == [thrown |-> FALSE, storage |-> storage, index |-> entitiesIndex,
               entities |-> entities, toDestroy |-> entitiesToDestroy]
      st == PurgeStorage(storage, 1)
      ix == PurgeIndex(entitiesIndex, 1)
  IN IF Len(entitiesToDestroy) = 0
     THEN same
     ELSE IF st.thrown
     THEN [same EXCEPT !.thrown = TRUE, !.storage = st.storage]
     ELSE IF ix.thrown
     THEN [same EXCEPT !.thrown = TRUE, !.storage = st.storage, !.index = ix.index]
     ELSE [thrown |-> FALSE, storage |-> st.storage, index |-> ix.index,
           entities |-> PurgeSlots(entities, 1), toDestroy |-> <<>>]

\* -------------------------------------------------------------------- step
\* step() up to its loop over the systems: the purge.  A TypeError thrown by
\* the purge ends step().
stepPurge ==
  /\ pc = "idle"
  /\ LET r == purgeDestroyedEntities
     IN /\ storage' = r.storage
        /\ entitiesIndex' = r.index
        /\ entities' = r.entities
        /\ entitiesToDestroy' = r.toDestroy
        /\ IF r.thrown
           THEN /\ thrown' = "TypeError"
                /\ UNCHANGED pc
           ELSE /\ pc' = "stepping"
                /\ thrown' = "none"
  /\ sysIdx' = 0
  /\ UNCHANGED <<components, systems, builder, call>>

\* "Collect a list of storages for each component (except tag components)."
StorageList(componentIds) ==
  SelectSeq(componentIds, LAMBDA h : Component(h).factory)

\* One round of the loop over this.systems.values(), up to the call of the
\* system's step function.
stepSystem ==
  /\ pc = "stepping"
  /\ sysIdx < Len(systems)
  /\ LET system == systems[sysIdx + 1]
     IN /\ entitiesIndex' = filterEntities(system.require, system.exclude)
        /\ call' = [entities |-> IndexPos(entitiesIndex', system.require, system.exclude),
                    storages |-> StorageList(system.components)]
  /\ pc' = "system"
  /\ sysIdx' = sysIdx + 1
  /\ UNCHANGED <<components, storage, entities, systems, entitiesToDestroy, builder, thrown>>

\* The system's step function returns.
systemReturn ==
  /\ pc = "system"
  /\ pc' = "stepping"
  /\ call' = NoCall
  /\ UNCHANGED <<world, builder, sysIdx, thrown>>

\* The loop over the systems is over and step() returns.
stepReturn ==
  /\ pc = "stepping"
  /\ sysIdx = Len(systems)
  /\ pc' = "idle"
  /\ sysIdx' = 0
  /\ thrown' = "none"
  /\ UNCHANGED <<world, builder, call>>

Next ==
  \/ \E factory \in FactoryChoices(Len(components)) :
       Registrable(MaxComponents) /\ addComponent(factory) /\ UNCHANGED outside
  \/ \E ids \in SystemChoices(Len(systems)) : addSystem(ids) /\ UNCHANGED outside
  \/ \E ids \in Requirements : query(ids) /\ UNCHANGED outside
  \/ \E entries \in Chains : spawn(entries) /\ UNCHANGED outside
  \/ \E id \in 0..MaxEntities : Queueable(id, MaxPending) /\ destroyEntity(id) /\ UNCHANGED outside
  \/ stepPurge /\ UNCHANGED outside
  \/ stepSystem /\ UNCHANGED outside
  \/ systemReturn /\ UNCHANGED outside
  \/ stepReturn /\ UNCHANGED outside

Spec == Init /\ [][Next]_vars

\* The builder's own operations, one call at a time, on a world without systems.
NextBuilder ==
  \/ \E factory \in FactoryChoices(Len(components)) :
       Registrable(MaxComponents) /\ addComponent(factory) /\ UNCHANGED outside
  \/ entity /\ UNCHANGED outside
  \/ \E h \in Handles : \E props \in PropsFor(h) : with(h, props) /\ UNCHANGED outside
  \/ \E h \in Handles : tagged(<<h>>) /\ UNCHANGED outside
  \/ tagged(<<>>) /\ UNCHANGED outside
  \/ create /\ UNCHANGED outside
  \/ \E ids \in {<<Plain(0)>>} : query(ids) /\ UNCHANGED outside

SpecBuilder == Init /\ [][NextBuilder]_vars

\* Ticks with up to MaxQueued destructions pending, on a world of data
\* components with one system, filled by makers of two kinds of entities.
PurgeChains ==
  {<<[id |-> 0, props |-> 1]>>,
   <<[id |-> 0, props |-> 1], [id |-> 2, props |-> 1]>>}

\* The queries of the program: one with a requirement, world.query() and one
\* for an optional component only.
PurgeLists == {<<Plain(0), Not(2)>>, <<>>, <<Maybe(1)>>}

NextPurge ==
  \/ Registrable(MaxComponents) /\ addComponent(TRUE) /\ UNCHANGED outside
  \/ addSystem(<<Plain(0), Maybe(1), Not(2)>>) /\ UNCHANGED outside
  \/ \E ids \in PurgeLists : query(ids) /\ UNCHANGED outside
  \/ \E entries \in PurgeChains : spawn(entries) /\ UNCHANGED outside
  \/ \E id \in 0..MaxEntities : Queueable(id, MaxQueued) /\ destroyEntity(id) /\ UNCHANGED outside
  \/ stepPurge /\ UNCHANGED outside
  \/ stepSystem /\ UNCHANGED outside
  \/ systemReturn /\ UNCHANGED outside
  \/ stepReturn /\ UNCHANGED outside

SpecPurge == Init /\ [][NextPurge]_vars

\* The start of a program that registers up to MaxRegistered components,
\* the first three with or without a factory and the others as tags, then
\* its systems, and then queries the world it has not filled yet.
RegistryFactories(k) == IF k < 3 THEN BOOLEAN ELSE {FALSE}

RegistryLists ==
  { <<Plain(0)>>,
    <<Plain(0), Maybe(1), Not(2)>>,
    <<Plain(0), Plain(Foreign)>>,
    <<Plain(0), Maybe(Foreign)>>,
    <<Not(Foreign), Plain(0)>> }

\* The entities such a program makes: of its first component or of the one
\* registered last into the 32 bits of a mask.
RegistryChains ==
  {<<[id |-> h, props |-> props]>> :
     h \in {h \in {0, MaskWidth - 1} : Registered(h)}, props \in {0, 1}} \cap Chains

NextRegistry ==
  \/ \E factory \in RegistryFactories(Len(components)) :
       Registrable(MaxRegistered) /\ addComponent(factory) /\ UNCHANGED outside
  \/ \E ids \in RegistryLists : addSystem(ids) /\ UNCHANGED outside
  \/ \E ids \in RegistryLists : query(ids) /\ UNCHANGED outside
  \/ \E entries \in RegistryChains : spawn(entries) /\ UNCHANGED outside

SpecRegistry == Init /\ [][NextRegistry]_vars

\* -------------------------------------------------- the systems' loops
\* The systems of the game walk their list with "for (const { id } of
\* entities)" (game.ts 176-187): the array's iterator compares its index with
\* the length the array has at that moment, so the loop goes on over what is
\* appended while it runs.

\* step() calls a system of that kind: its loop is at the start of the list.
forOfCall ==
  /\ stepSystem
  /\ loop' = [index |-> 0, first |-> Len(entitiesIndex'[call'.entities].list)]

\* The loop takes the next element of the list.
forOfNext ==
  /\ pc = "system"
  /\ loop.index < Len(entitiesIndex[call.entities].list)
  /\ loop' = [loop EXCEPT !.index = @ + 1]
  /\ UNCHANGED <<world, builder, pc, sysIdx, call, thrown>>

\* The iterator is at the end of the list: the loop and the system return.
forOfDone ==
  /\ pc = "system"
  /\ loop.index >= Len(entitiesIndex[call.entities].list)
  /\ systemReturn
  /\ loop' = NoLoop

\* The body of the loop is running, or no system is.
InBody == pc = "system" => loop.index > 0

\* The requirement lists of the two systems: the first makes entities that
\* match its own list, the second runs after it.
IterateLists(k) ==
  IF k = 0 THEN {<<Plain(0)>>, <<Plain(MaskWidth - 1)>>} ELSE {<<Plain(0), Not(2)>>}

\* Ticks of a world of up to MaskWidth components, three with data and the
\* others tags, whose systems are loops of that kind that make entities (as
\* createProjectile in the shooting system) and destroy them.
NextIterate ==
  \/ Registrable(MaskWidth) /\ addComponent(Len(components) < 3) /\ UNCHANGED outside
  \/ \E ids \in IterateLists(Len(systems)) : addSystem(ids) /\ UNCHANGED outside
  \/ \E entries \in PurgeChains \cup RegistryChains :
       InBody /\ spawn(entries) /\ UNCHANGED outside
  \/ \E id \in 0..MaxEntities :
       InBody /\ Queueable(id, MaxPending) /\ destroyEntity(id) /\ UNCHANGED outside
  \/ stepPurge /\ UNCHANGED outside
  \/ forOfCall /\ UNCHANGED viewport
  \/ forOfNext /\ UNCHANGED viewport
  \/ forOfDone /\ UNCHANGED viewport
  \/ stepReturn /\ UNCHANGED outside

SpecIterate == Init /\ [][NextIterate]_vars

\* ---------------------------------------------------------------- Viewport
\* The timestamps requestAnimationFrame passes to its callback, in ms.
Times == {50, 100, 400}

\* world.step() of a world without systems: the purge and a loop over nothing.
stepAtOnce ==
  /\ pc = "idle"
  /\ systems = <<>>
  /\ LET r == purgeDestroyedEntities
     IN /\ storage' = r.storage
        /\ entitiesIndex' = r.index
        /\ entities' = r.entities
        /\ entitiesToDestroy' = r.toDestroy
        /\ thrown' = IF r.thrown THEN "TypeError" ELSE "none"
  /\ UNCHANGED <<components, systems, builder, pc, sysIdx, call, loop>>

\* dt of frame(now) in a closure whose last frame was at lastTime (in 60ths
\* of a second, whole ones here).
DeltaTime(now, lastTime) ==
  IF now # 0 /\ now - lastTime < 250 THEN ((now - lastTime) * 60) \div 1000 ELSE 1

\* The effect of Viewport runs with the props and the canvas of this render,
\* after the cleanup of its previous run if that run returned one. It stops
\* at once without run, a canvas and a context; else it opens a closure and
\* calls frame(0), which steps the world and asks for the next frame. If that
\* step throws, the effect ends before it returns its cleanup.
effect(run, context) ==
  /\ active = 0
  /\ IF ~run \/ ~context
     THEN UNCHANGED vars
     ELSE /\ stepAtOnce
          /\ globals' = [context |-> TRUE, deltaTime |-> DeltaTime(0, 0)]
          /\ effects' = Append(effects, [shouldContinue |-> TRUE, lastTime |-> 0,
                                         pending |-> (thrown' = "none"), steps |-> 1])
          /\ active' = IF thrown' = "none" THEN Len(effects) + 1 ELSE 0

\* The cleanup function the active run of the effect returned.
cleanup ==
  /\ active # 0
  /\ globals' = [context |-> FALSE, deltaTime |-> 0]
  /\ effects' = [effects EXCEPT ![active].shouldContinue = FALSE]
  /\ active' = 0
  /\ UNCHANGED <<world, builder, pc, sysIdx, call, thrown, loop>>

\* A frame that steps the world whether or not its effect was cleaned up.
frameUnchecked(i, now) ==
  /\ i \in 1..Len(effects)
  /\ effects[i].pending
  /\ now > effects[i].lastTime
  /\ stepAtOnce
  /\ globals' = [globals EXCEPT !.deltaTime = DeltaTime(now, effects[i].lastTime)]
  /\ effects' = [effects EXCEPT ![i].lastTime = now,
                                ![i].pending = (thrown' = "none"),
                                ![i].steps = @ + 1]
  /\ UNCHANGED active

\* The browser calls the frame function that closure i asked for with
\* requestAnimationFrame, at time now. steps counts the calls of world.step()
\* this closure has made.
frame(i, now) ==
  /\ i \in 1..Len(effects)
  /\ effects[i].pending
  /\ IF ~effects[i].shouldContinue
     THEN /\ effects' = [effects EXCEPT ![i].pending = FALSE]
          /\ UNCHANGED <<world, builder, pc, sysIdx, call, thrown, loop, active, globals>>
     ELSE /\ now > effects[i].lastTime
          /\ stepAtOnce
          /\ globals' = [globals EXCEPT !.deltaTime = DeltaTime(now, effects[i].lastTime)]
          /\ effects' = [effects EXCEPT ![i].lastTime = now,
                                        ![i].pending = (thrown' = "none"),
                                        ![i].steps = @ + 1]
          /\ UNCHANGED active

\* The page: a world with one data component whose entities are made and
\* destroyed between frames, shown by a Viewport that is rendered up to
\* MaxEffects times with a running effect.
MaxEffects == 2

NextViewport ==
  \/ Registrable(1) /\ addComponent(TRUE) /\ UNCHANGED outside
  \/ \E entries \in {<<>>, <<[id |-> 0, props |-> 1]>>} :
       spawn(entries) /\ UNCHANGED outside
  \/ \E id \in 0..MaxEntities :
       Queueable(id, MaxPending) /\ destroyEntity(id) /\ UNCHANGED outside
  \/ \E run, context \in BOOLEAN : Len(effects) < MaxEffects /\ effect(run, context)
  \/ cleanup
  \/ \E i \in 1..MaxEffects : \E now \in Times : frame(i, now)

SpecViewport == Init /\ [][NextViewport]_vars

\* ================================================================ claims
Range(seq) == {seq[i] : i \in 1..Len(seq)}

\* The entities in the entity table.
Live == {e \in Range(entities) : IsEntity(e)}

\* The entity carries the component with handle h.
Has(e, h) == BitAnd(e.mask, Component(h).bit) # 0

\* The list of the running system, the array its step function iterates.
Delivered == entitiesIndex[call.entities].list

\* The queued ids that name an entity of the table.
QueuedLive(queue) == {id \in Range(queue) : IsEntity(EntityAt(id))}

\* C1: whenever no destruction is pending, every cached list holds exactly
\* the live entities e with (e.mask & require) == require and
\* (e.mask & exclude) == 0, as a from-scratch scan of the table gives them.
C1_CacheEqualsScan ==
  entitiesToDestroy = <<>> =>
    \A j \in 1..Len(entitiesIndex) :
      Range(entitiesIndex[j].list) =
        {e \in Live : /\ BitAnd(e.mask, entitiesIndex[j].require) = entitiesIndex[j].require
                      /\ BitAnd(e.mask, entitiesIndex[j].exclude) = 0}

\* C2: the list resolved for [A, Maybe(B), Not(C)] and for [A, Not(C)] holds
\* exactly the live entities that carry A and do not carry C.
C2_MaybeNotMatching ==
  Len(components) >= 3 =>
    \A ids \in {<<Plain(0), Maybe(1), Not(2)>>, <<Plain(0), Not(2)>>} :
      LET r == Resolve(ids)
          j == IndexPos(entitiesIndex, r.require, r.exclude)
      IN j # 0 =>
           Range(entitiesIndex[j].list) = {e \in Live : Has(e, 0) /\ ~Has(e, 2)}

\* C3: from a call of destroyEntity by a system to the end of that step(),
\* the entity keeps its slot, stays in every list it is in, enters every list
\* built for a filter it matches, the list handed to each later system is
\* the cached list of that system's filter, and its data stay in the storages.
C3_StaysThroughTick ==
  [][pc # "idle" =>
       /\ \A id \in QueuedLive(entitiesToDestroy') :
            LET e == EntityAt(id)
            IN /\ entities'[id + 1] = e
               /\ \A j \in 1..Len(entitiesIndex') :
                    IF j <= Len(entitiesIndex)
                    THEN e \in Range(entitiesIndex[j].list) =>
                           e \in Range(entitiesIndex'[j].list)
                    ELSE Matches(e, entitiesIndex'[j].require, entitiesIndex'[j].exclude) =>
                           e \in Range(entitiesIndex'[j].list)
               /\ \A k \in 1..Len(components) :
                    id \in DOMAIN storage[k] /\ BitAnd(e.mask, components[k].bit) # 0 =>
                      id \in DOMAIN storage'[k] /\ storage'[k][id] = storage[k][id]
       /\ pc' = "system" =>
            /\ call'.entities # 0
            /\ entitiesIndex'[call'.entities].require = systems[sysIdx'].require
            /\ entitiesIndex'[call'.entities].exclude = systems[sysIdx'].exclude
            /\ \A h \in Range(call'.storages) : Component(h).factory
  ]_vars

\* C3 happens: the second system of a tick runs and its list holds an entity
\* that was queued for destruction in this tick, with its data in a storage.
C3_Witness ==
  /\ pc = "system"
  /\ sysIdx = 2
  /\ \E id \in QueuedLive(entitiesToDestroy) :
       /\ EntityAt(id) \in Range(Delivered)
       /\ \E h \in Range(call.storages) : id \in DOMAIN storage[h + 1]

\* C4: once step() has made its purge, every live entity that was queued by
\* destroyEntity has lost its slot and is in no cached list (the lists
\* handed to systems and returned by query), and a freed slot stays freed.
C4_GoneAfterPurge ==
  [][ /\ stepPurge =>
           \A id \in QueuedLive(entitiesToDestroy) :
             /\ ~IsEntity(entities'[id + 1])
             /\ \A j \in 1..Len(entitiesIndex') :
                  EntityAt(id) \notin Range(entitiesIndex'[j].list)
      /\ \A i \in 1..Len(entities) :
           ~IsEntity(entities[i]) => ~IsEntity(entities'[i])
  ]_vars

\* C5: a call of destroyEntity that lengthens the queue leaves the entity
\* table, the masks, the storages, the cached lists and the running system's
\* list as they are, and until the purge of the next step() the queued
\* entity keeps its slot, its place in the lists and its data.
C5_DestroyOnlyQueues ==
  [][  /\ Len(entitiesToDestroy') > Len(entitiesToDestroy) =>
            UNCHANGED <<components, storage, entities, systems, entitiesIndex,
                        builder, pc, sysIdx, call>>
       /\ ~stepPurge =>
            \A id \in QueuedLive(entitiesToDestroy) :
              LET e == EntityAt(id)
              IN /\ entities'[id + 1] = e
                 /\ \A j \in 1..Len(entitiesIndex) :
                      entitiesIndex'[j].list = entitiesIndex[j].list
                        \/ entitiesIndex'[j].list # SelectSeq(entitiesIndex'[j].list, LAMBDA x : x # e)
                        \/ e \notin Range(entitiesIndex[j].list)
                 /\ \A k \in 1..Len(components) :
                      id \in DOMAIN storage[k] /\ BitAnd(e.mask, components[k].bit) # 0 =>
                        id \in DOMAIN storage'[k] /\ storage'[k][id] = storage[k][id]
  ]_vars

\* C5 happens: a system has queued an entity of the list it iterates.
C5_Witness ==
  /\ pc = "system"
  /\ sysIdx = 1
  /\ \E id \in QueuedLive(entitiesToDestroy) : EntityAt(id) \in Range(Delivered)

\* The sum of the bits of a set of registered handles: their bitwise OR, as
\* the bits of different components are different powers of two.
RECURSIVE SumBits(_)
SumBits(hs) ==
  IF hs = {}
  THEN 0
  ELSE LET h == CHOOSE x \in hs : TRUE
       IN Component(h).bit + SumBits(hs \ {h})

\* C6: the mask of an entity made by create() is the bitwise OR of the bits
\* of the distinct components staged on its builder, and the mask of an
\* entity in the table does not change until a purge frees its slot.
C6_MaskIsOrOfStaged ==
  [][ /\ Len(entities') > Len(entities) =>
           \A entries \in Chains :
             spawn(entries) =>
               entities'[Len(entities')] =
                 [id |-> Len(entities),
                  mask |-> SumBits({entries[i].id : i \in 1..Len(entries)})]
      /\ \A i \in 1..Len(entities) :
           IsEntity(entities[i]) /\ entities'[i] # entities[i] =>
             /\ ~IsEntity(entities'[i])
             /\ pc = "idle"
             /\ (i - 1) \in Range(entitiesToDestroy)
  ]_vars

\* C6 happens: an entity made with two components carries both bits, after
\* a purge has freed the slot of another entity.
C6_Witness ==
  /\ Len(components) = 3
  /\ \E e \in Live : e.mask = Component(0).bit + Component(2).bit
  /\ \E i \in 1..Len(entities) : entities[i] = NullSlot

\* C7: once create() has returned on a builder, create(), with() and
\* tagged(c) on that builder throw and change neither the world nor the
\* builder, and every entity made comes from a builder that was open and is
\* not open afterwards.
C7_BuilderSingleUse ==
  [][ /\ builder.state = "used" =>
           /\ create => thrown' = "invalid builder use" /\ UNCHANGED <<world, builder>>
           /\ \A h \in Handles :
                /\ tagged(<<h>>) => thrown' = "invalid builder use" /\ UNCHANGED <<world, builder>>
                /\ \A props \in PropsFor(h) :
                     with(h, props) => thrown' = "invalid builder use" /\ UNCHANGED <<world, builder>>
           /\ entities' = entities
      /\ Len(entities') > Len(entities) =>
           builder.state = "open" /\ builder'.state = "used"
  ]_vars

\* C7 happens: a call on the builder of the one entity made has thrown.
C7_Witness ==
  /\ builder.state = "used"
  /\ thrown = "invalid builder use"
  /\ Len(entities) = 1

\* C8: a system with Maybe(B) gets B's storage, and for each entity of its
\* list this storage has an entry exactly when the entity carries B, the
\* entry being a value of B's factory.
C8_MaybeAccessor ==
  pc = "system" /\ 1 \in Range(call.storages) =>
    \A e \in Range(Delivered) :
      IF Has(e, 1)
      THEN e.id \in DOMAIN storage[2] /\ storage[2][e.id].of = 1
      ELSE e.id \notin DOMAIN storage[2]

\* C9: with P a data component and T a tag, an entity made with T only is
\* not in the list of query(P) and has no entry in P's storage; an entity
\* made with P(args) is in that list with factory(args) stored at its id;
\* and an id whose slot a purge has freed has no entry in P's storage and no
\* entity in the list.
C9_DataLifecycle ==
  Len(components) = 3 /\ ~Component(2).factory =>
    LET P == Component(0)
        T == Component(2)
        j == IndexPos(entitiesIndex, P.bit, 0)
    IN /\ \A e \in Live :
            e.mask = T.bit =>
              /\ e.id \notin DOMAIN storage[1]
              /\ j # 0 => e \notin Range(entitiesIndex[j].list)
       /\ \A e \in Live :
            Has(e, 0) /\ entitiesToDestroy = <<>> =>
              /\ e.id \in DOMAIN storage[1]
              /\ storage[1][e.id] \in {Factory(0, args) : args \in 1..MaxArg}
              /\ j # 0 => e \in Range(entitiesIndex[j].list)
       /\ \A i \in 1..Len(entities) :
            entities[i] = NullSlot =>
              /\ (i - 1) \notin DOMAIN storage[1]
              /\ j # 0 => \A e \in Range(entitiesIndex[j].list) : e.id # i - 1

\* C10: step() first purges every pending destruction and then calls the
\* systems one at a time in the order of their registration, each once, and
\* returns after the last one.
C10_PurgeThenSystems ==
  [][ /\ stepPurge => pc' = "stepping" /\ entitiesToDestroy' = <<>>
      /\ pc' = "system" =>
           /\ pc = "stepping"
           /\ sysIdx' = sysIdx + 1
           /\ entitiesToDestroy' = entitiesToDestroy
      /\ pc = "system" /\ pc' # "system" => pc' = "stepping" /\ sysIdx' = sysIdx
      /\ pc = "stepping" /\ pc' = "idle" => sysIdx = Len(systems)
      /\ pc = "stepping" /\ pc' = "stepping" => UNCHANGED sysIdx
  ]_vars

\* C11: an entity enters the table only in a new slot after all the slots
\* there are, with the number of slots before the call as its id, so that
\* the ids create() returns grow strictly; the table never shrinks, and the
\* slot a purge has set to null stays null.
C11_IdsNeverReused ==
  [][ /\ Len(entities') >= Len(entities)
      /\ \A i \in 1..Len(entities') :
           IsEntity(entities'[i]) /\ (i > Len(entities) \/ entities'[i] # entities[i]) =>
             /\ i = Len(entities) + 1
             /\ Len(entities') = Len(entities) + 1
             /\ entities'[i].id = Len(entities)
      /\ \A i \in 1..Len(entities) :
           entities[i] = NullSlot => entities'[i] = NullSlot
  ]_vars

\* C11 happens: the slot of id 0 is null after a purge and the table holds
\* the entity of id 1, with no step() in progress.
C11_Witness ==
  /\ pc = "idle"
  /\ Len(entities) = 2
  /\ entities[1] = NullSlot
  /\ IsEntity(entities[2]) /\ entities[2].id = 1
  /\ entitiesToDestroy = <<>>

\* C12: the storages handed to a system's update function are those of its
\* required and Maybe components that have a storage, in the order of the
\* requirement list; a tag and a Not component give none.
C12_AccessorsPerRequirement ==
  pc = "system" =>
    call.storages =
      SelectSeq(systems[sysIdx].components,
        LAMBDA h : /\ Component(h).factory
                   /\ BitAnd(systems[sysIdx].exclude, Component(h).bit) = 0)

\* A 32-bit integer with exactly one bit set.
IsSingleBit(b) == b = FromBits(TRUE, 0) \/ \E k \in 0..(MaskWidth - 2) : b = 2 ^ k

\* C13: every registered component has a bit with a single bit set, the one
\* at the position of its registration number, and no two components of the
\* world have the same bit.
C13_BitsDistinctPowersOfTwo ==
  /\ \A i \in 1..Len(components) :
       /\ IsSingleBit(components[i].bit)
       /\ i < MaskWidth => components[i].bit = 2 ^ (i - 1)
  /\ \A i, j \in 1..Len(components) :
       i # j => components[i].bit # components[j].bit

\* C14: once MaskWidth components are registered, addComponent throws and
\* registers nothing.
C14_RegistrationFailsWhenFull ==
  [][Len(components) >= MaskWidth =>
       /\ components' = components
       /\ storage' = storage
  ]_vars

\* C15: query() and addSystem() with a requirement list that holds a handle
\* not registered in the world, plain or under Maybe or Not, throw and leave
\* the world as it is: no system is added and no cache entry is made.
C15_UnregisteredInListThrows ==
  [][\A ids \in RegistryLists :
       ((\E i \in 1..Len(ids) : ~Registered(ids[i].id)) /\ (query(ids) \/ addSystem(ids)))
         => (thrown' = "invalid component" /\ UNCHANGED world)
  ]_vars

\* C15 happens: a query has thrown in a world that has its systems and a
\* cache entry.
C15_Witness ==
  /\ thrown = "invalid component"
  /\ Len(systems) = MaxSystems
  /\ Len(entitiesIndex) = 1

\* C16: with() given a handle that is not registered in the world throws at
\* that call and stages nothing.
C16_WithRejectsUnregistered ==
  [][\A h \in Handles : \A props \in PropsFor(h) :
       (builder.state = "open" /\ ~Registered(h) /\ with(h, props))
         => (thrown' # "none" /\ builder' = builder)
  ]_vars

\* What a builder holds after with(h, props): one entry for h, with props,
\* and the entries of the other handles as they were.
StagesLast(old, new, h, props) ==
  /\ \A i, j \in 1..Len(new) : new[i].id = new[j].id => i = j
  /\ [id |-> h, props |-> props] \in Range(new)
  /\ {e \in Range(new) : e.id # h} = {e \in Range(old) : e.id # h}

\* C17: with() for a component that is already staged replaces the earlier
\* arguments (tagged(c) is with(c) without arguments), and create() makes
\* the entity from one entry per component: its mask is the OR of the bits
\* of the staged components and each storage holds factory(the arguments of
\* the last call).
C17_WithOverwrites ==
  [][ /\ builder.state = "open" =>
           \A h \in Handles :
             /\ \A props \in PropsFor(h) :
                  with(h, props) =>
                    StagesLast(builder.components, builder'.components, h, props)
             /\ tagged(<<h>>) =>
                  StagesLast(builder.components, builder'.components, h, 0)
      /\ create /\ Len(entities') > Len(entities) =>
           LET id == Len(entities)
           IN /\ entities'[id + 1].mask =
                   SumBits({builder.components[i].id : i \in 1..Len(builder.components)})
              /\ \A i \in 1..Len(builder.components) :
                   LET h == builder.components[i].id
                   IN Component(h).factory =>
                        /\ id \in DOMAIN storage'[h + 1]
                        /\ storage'[h + 1][id] = Factory(h, builder.components[i].props)
  ]_vars

\* C17 happens: the entity made holds for one component the value of a
\* factory called without arguments, as tagged(c) stages it also over an
\* earlier with(c, 1), and for another the value of a factory called with 1.
C17_Witness ==
  /\ Len(entities) = 1
  /\ Len(components) >= 2
  /\ entities[1].mask = Component(0).bit + Component(1).bit
  /\ 0 \in DOMAIN storage[1] /\ storage[1][0] = Factory(0, 0)
  /\ 0 \in DOMAIN storage[2] /\ storage[2][0] = Factory(1, 1)
  /\ builder.state = "used"

\* C18: a create() that throws leaves the world as it was: no slot, no
\* storage entry, no change of a cache list; a create() that succeeds adds
\* one slot with the next id.
C18_CreateIsAtomic ==
  [][ /\ create /\ thrown' = "invalid component" => UNCHANGED world
      /\ create /\ thrown' = "none" =>
           /\ Len(entities') = Len(entities) + 1
           /\ entities'[Len(entities')].id = Len(entities)
  ]_vars

\* C19: a purge that runs to its end takes out of every cached list the
\* entities whose ids are queued and no other, and leaves the rest in order.
C19_PurgeRemovesExactlyQueued ==
  [][stepPurge /\ pc' = "stepping" =>
       /\ Len(entitiesIndex') = Len(entitiesIndex)
       /\ \A j \in 1..Len(entitiesIndex) :
            entitiesIndex'[j].list =
              SelectSeq(entitiesIndex[j].list,
                LAMBDA e : e.id \notin Range(entitiesToDestroy))
  ]_vars

\* C20: when createEntity adds an entity, each existing cached list whose
\* require and exclude masks the entity's mask satisfies gets it at its end,
\* and every other cached list stays as it is.
C20_CreateAppendsToMatching ==
  [][Len(entities') = Len(entities) + 1 /\ IsEntity(entities'[Len(entities')]) =>
       LET e == entities'[Len(entities')]
       IN /\ Len(entitiesIndex') = Len(entitiesIndex)
          /\ \A j \in 1..Len(entitiesIndex) :
               entitiesIndex'[j].list =
                 IF Matches(e, entitiesIndex[j].require, entitiesIndex[j].exclude)
                 THEN Append(entitiesIndex[j].list, e)
                 ELSE entitiesIndex[j].list
  ]_vars

\* C21: when the purge of a step() ends normally the queue is empty, every
\* id that was queued has a null slot and no entry in any storage, and the
\* slots and storage entries of the other ids are as they were.
C21_PurgePostconditions ==
  [][stepPurge /\ pc' = "stepping" =>
       /\ entitiesToDestroy' = <<>>
       /\ \A id \in Range(entitiesToDestroy) :
            /\ entities'[id + 1] = NullSlot
            /\ \A k \in 1..Len(storage') : id \notin DOMAIN storage'[k]
       /\ \A i \in 1..Len(entities) :
            (i - 1) \notin Range(entitiesToDestroy) => entities'[i] = entities[i]
       /\ \A k \in 1..Len(storage) :
            \A id \in DOMAIN storage[k] \ Range(entitiesToDestroy) :
              id \in DOMAIN storage'[k] /\ storage'[k][id] = storage[k][id]
  ]_vars

\* The requirement list without its Maybe components.
WithoutMaybe(ids) == SelectSeq(ids, LAMBDA c : c.mod # "maybe")

\* C22: a cache entry is built only the first time its (require, exclude)
\* pair is requested: no two entries have the same pair, an entry keeps its
\* place and its pair for good, a request of query() or of step() for a pair
\* that has an entry changes nothing in the cache and hands out the stored
\* list, and requirement lists that differ only in their Maybe components
\* resolve to the same pair (with every set of registered components, so at
\* every registration).
C22_CacheBuiltOnce ==
  [][/\ \A i \in 1..Len(entitiesIndex) :
          /\ i <= Len(entitiesIndex')
          /\ entitiesIndex'[i].require = entitiesIndex[i].require
          /\ entitiesIndex'[i].exclude = entitiesIndex[i].exclude
     /\ \A i, j \in 1..Len(entitiesIndex') :
          (/\ entitiesIndex'[i].require = entitiesIndex'[j].require
           /\ entitiesIndex'[i].exclude = entitiesIndex'[j].exclude) => i = j
     /\ \/ entitiesIndex' = entitiesIndex
        \/ \A ids \in Requirements :
             ~(/\ query(ids)
               /\ ~Resolve(ids).thrown
               /\ IndexPos(entitiesIndex, Resolve(ids).require, Resolve(ids).exclude) # 0)
     /\ \/ /\ entitiesIndex' = entitiesIndex
           /\ stepSystem =>
                call'.entities = IndexPos(entitiesIndex, systems[sysIdx + 1].require,
                                          systems[sysIdx + 1].exclude)
        \/ ~(/\ stepSystem
              /\ IndexPos(entitiesIndex, systems[sysIdx + 1].require,
                           systems[sysIdx + 1].exclude) # 0)
     /\ \/ components' = components
        \/ \A ids \in Requirements :
             (\A i \in 1..Len(ids) : Registered(ids[i].id)')
             => /\ Resolve(WithoutMaybe(ids)).require' = Resolve(ids).require'
                /\ Resolve(WithoutMaybe(ids)).exclude' = Resolve(ids).exclude'
  ]_vars

\* The second system of a tick is handed the list stored first, while a
\* second entry exists: its request built nothing.
C22_Witness ==
  /\ pc = "system"
  /\ sysIdx = 2
  /\ call.entities = 1
  /\ Len(entitiesIndex) = 2
  /\ Len(Delivered) > 0
  /\ \E ids \in Requirements : \E i \in 1..Len(ids) : ids[i].mod = "maybe" /\ Registered(ids[i].id)

\* The requirement lists of up to MaxListLen components over the registered
\* handles, each plain, Maybe or Not.
MaxListLen == 2

ResolveLists ==
  LET Items == {[mod |-> m, id |-> h] : m \in {"none", "maybe", "not"},
                                        h \in 0..(Len(components) - 1)}
  IN UNION {[1..n -> Items] : n \in 0..MaxListLen}

\* The handles a list names with the modifier.
HandlesOf(ids, mod) == {ids[i].id : i \in {j \in 1..Len(ids) : ids[j].mod = mod}}

\* C23: resolving a requirement list gives as require mask the OR of the bits
\* of its plain components and as exclude mask the OR of the bits of its Not
\* components, its Maybe components adding to neither; the empty list and a
\* list of Maybe components only give (0, 0), the scan for (0, 0) selects
\* every entity of the table, and so does the list cached for (0, 0).
C23_ResolveMasks ==
  /\ \A ids \in ResolveLists :
       /\ ~Resolve(ids).thrown
       /\ Resolve(ids).require = SumBits(HandlesOf(ids, "none"))
       /\ Resolve(ids).exclude = SumBits(HandlesOf(ids, "not"))
       /\ HandlesOf(ids, "none") \cup HandlesOf(ids, "not") = {}
          => /\ Resolve(ids).require = 0
             /\ Resolve(ids).exclude = 0
  /\ Range(Scan(0, 0)) = Live
  /\ Len(Scan(0, 0)) = Cardinality(Live)
  /\ \A i \in 1..Len(entitiesIndex) :
       entitiesIndex[i].require = 0 /\ entitiesIndex[i].exclude = 0
       => entitiesIndex[i].list = Scan(0, 0)

\* world.query() or a query for an optional component was answered with a
\* list of two entities of different masks, all there are.
C23_Witness ==
  /\ Len(components) = 3
  /\ \E i \in 1..Len(entitiesIndex) :
       /\ entitiesIndex[i].require = 0
       /\ entitiesIndex[i].exclude = 0
       /\ Len(entitiesIndex[i].list) = 2
       /\ entitiesIndex[i].list[1].mask = 1
       /\ entitiesIndex[i].list[2].mask = 5
  /\ Cardinality(Live) = 2

\* The entities of the list whose id is not in the queue, in the list's order.
NotQueued(list, queue) == SelectSeq(list, LAMBDA e : e.id \notin Range(queue))

\* C24: whatever ids were passed to destroyEntity, the purge of the next
\* step() does not throw and leaves the queue empty, and the entities, the
\* storage entries and the cache-list elements of the ids that were not
\* queued are as before.
C24_StepSurvivesAnyId ==
  [][stepPurge =>
       /\ thrown' = "none"
       /\ pc' = "stepping"
       /\ entitiesToDestroy' = <<>>
       /\ Live' = {e \in Live : e.id \notin Range(entitiesToDestroy)}
       /\ \A k \in 1..Len(storage) :
            \A id \in DOMAIN storage[k] \ Range(entitiesToDestroy) :
              id \in DOMAIN storage'[k] /\ storage'[k][id] = storage[k][id]
       /\ \A i \in 1..Len(entitiesIndex) :
            NotQueued(entitiesIndex'[i].list, entitiesToDestroy)
              = NotQueued(entitiesIndex[i].list, entitiesToDestroy)
  ]_vars

\* seq is the start of longer.
IsPrefix(seq, longer) ==
  Len(seq) <= Len(longer) /\ \A i \in 1..Len(seq) : longer[i] = seq[i]

\* C25: an entity a system creates while step() runs is appended at once to
\* every cache list it matches, and to the list the system is iterating
\* ahead of the loop; no list loses an element before the tick is over and a
\* system called later in the tick is handed the stored list, so the entity
\* is delivered to it; and a for...of loop returns only when it has visited
\* every element of its list, those appended while it ran included.
C25_CreatedInStepIsVisited ==
  [][/\ (pc = "system" /\ Len(entities') = Len(entities) + 1) =>
          LET e == entities'[Len(entities')]
              running == systems[sysIdx]
          IN /\ \A i \in 1..Len(entitiesIndex) :
                  Matches(e, entitiesIndex[i].require, entitiesIndex[i].exclude)
                  => entitiesIndex'[i].list = Append(entitiesIndex[i].list, e)
             /\ Matches(e, running.require, running.exclude)
                  => /\ Delivered'[Len(Delivered')] = e
                     /\ loop'.index < Len(Delivered')
     /\ pc # "idle" =>
          \A i \in 1..Len(entitiesIndex) :
            IsPrefix(entitiesIndex[i].list, entitiesIndex'[i].list)
     /\ (pc = "stepping" /\ pc' = "system") =>
          LET pos == IndexPos(entitiesIndex, systems[sysIdx + 1].require,
                              systems[sysIdx + 1].exclude)
          IN /\ pos # 0 => call'.entities = pos
             /\ pos = 0 => \A e \in Live :
                  Matches(e, systems[sysIdx + 1].require, systems[sysIdx + 1].exclude)
                  => e \in Range(Delivered')
     /\ (pc = "system" /\ pc' = "stepping") => loop.index = Len(Delivered)
     /\ (pc = "system" /\ loop'.index # loop.index /\ pc' = "system") =>
          /\ loop'.index = loop.index + 1
          /\ loop'.index <= Len(Delivered)
  ]_vars

\* C26: while no step() is running, the ids with an entry in the storage of
\* a component are the ids of the entities of the table whose mask has the
\* component's bit.
C26_StorageDomainIsMask ==
  pc = "idle" =>
    \A h \in 0..(Len(components) - 1) :
      Component(h).factory =>
        DOMAIN storage[h + 1] = {e.id : e \in {x \in Live : Has(x, h)}}

\* C27: hasComponent(entity, c) is true exactly when c is registered and the
\* entity's mask includes c's bit, also for the component registered 32nd,
\* whose bit is 1 << 31; it is false for a handle that is not registered.
C27_HasComponentIffBit ==
  \A e \in Live :
    \A h \in (0..(Len(components) - 1)) \cup {Foreign} :
      hasComponent(e, h)
        <=> (Registered(h) /\ BitAnd(e.mask, Component(h).bit) = Component(h).bit)

\* C28: a destroyEntity(id) for an id that is queued already changes nothing
\* in the world, so the next step() does what it does after one call: and
\* that purge, when it runs to its end, removes no entity other than the
\* queued ones from a cache list and no data other than theirs from a storage.
C28_RepeatedDestroyIsOne ==
  [][/\ \A id \in Range(entitiesToDestroy) : destroyEntity(id) => UNCHANGED world
     /\ (stepPurge /\ pc' = "stepping") =>
          /\ \A j \in 1..Len(entitiesIndex) :
               \A e \in Range(entitiesIndex[j].list) :
                 e.id \notin Range(entitiesToDestroy) => e \in Range(entitiesIndex'[j].list)
          /\ \A k \in 1..Len(storage) :
               DOMAIN storage[k] \ Range(entitiesToDestroy) \subseteq DOMAIN storage'[k]
  ]_vars

\* C29: in every state, every element of a cache list is the entity that the
\* table holds at the element's id, and the ids of a list's elements ascend,
\* so that no entity is in a list twice.
C29_ListsWellFormed ==
  \A j \in 1..Len(entitiesIndex) :
    LET list == entitiesIndex[j].list
    IN \A a \in 1..Len(list) :
         /\ IsEntity(list[a])
         /\ list[a].id < Len(entities)
         /\ entities[list[a].id + 1] = list[a]
         /\ \A b \in (a + 1)..Len(list) : list[a].id < list[b].id


\* The closures whose frame loop is alive: not cleaned up, with a frame
\* asked for.
Looping == {i \in 1..Len(effects) : effects[i].shouldContinue /\ effects[i].pending}

\* C30: once the cleanup of a run of Viewport's effect has run, its frame
\* function never calls world.step() again, whether or not a callback it had
\* asked for still fires, and the cleanup is for good; so at most one frame
\* loop steps the world at any time, also after the effect has run again.
C30_NoStepAfterCleanup ==
  [][/\ \A i \in 1..Len(effects) :
          ~effects[i].shouldContinue
          => /\ effects'[i].steps = effects[i].steps
             /\ effects'[i].lastTime = effects[i].lastTime
             /\ ~effects'[i].shouldContinue
             /\ (effects'[i].pending # effects[i].pending
                 => UNCHANGED <<world, globals>>)
     /\ active # 0 /\ active' = 0 => ~effects'[active].shouldContinue
     /\ Cardinality(Looping') <= 1
     /\ \A i \in Looping' : i = active'
  ]_vars

\* The first run of the effect was cleaned up after it had stepped the world
\* in a frame, the callback it had asked for has fired since, and the second
\* run's loop is stepping the world.
C30_Witness ==
  /\ Len(effects) = 2
  /\ ~effects[1].shouldContinue
  /\ ~effects[1].pending
  /\ effects[1].steps = 2
  /\ thrown = "none"
  /\ entitiesToDestroy = <<>>
  /\ active = 2
  /\ effects[2].pending
  /\ effects[2].steps = 2
  /\ Len(entities) = 2

\* C31: in every state each slot i of the entity table is null or holds an
\* entity whose id is i; the table never gets shorter; and the entity a
\* successful create() adds has as id the length the table had before.
C31_EntityTable ==
  [][/\ \A i \in 1..Len(entities') :
          \/ entities'[i] = NullSlot
          \/ IsEntity(entities'[i]) /\ entities'[i].id = i - 1
     /\ Len(entities') >= Len(entities)
     /\ (Len(entities') = Len(entities) + 1 /\ IsEntity(entities'[Len(entities')]))
          => entities'[Len(entities')].id = Len(entities)
  ]_vars
====
